---- MODULE Spec2Model ----
(***************************************************************************)
(* Model of SimRadio (src/platform/portduino/SimRadio.cpp): the transmit   *)
(* queue, the packet being sent, the receive flag, the packet pool and the *)
(* airtime log, driven by send, cancelSending, onNotify and startReceive.  *)
(*                                                                         *)
(* Every function of the class is an operator from the object's state (a   *)
(* record s) to its state afterwards.  The three blocking delay() calls    *)
(* are the only places where a call stops: a calling context that reaches  *)
(* one is parked there (inDelay, inXmit, inRecv) and other contexts may    *)
(* call into the radio before it goes on.  Between two delay() calls the   *)
(* code runs without interruption.                                         *)
(***************************************************************************)
EXTENDS Integers, Sequences, FiniteSets, TLC

\* ---------------------------------------------------------------- bounds
MaxContexts == 3      \* calling contexts that may be inside the radio at once
MaxPackets == 3       \* packets the callers hand to send
MaxReceives == 2      \* frames the callers hand to startReceive
MaxTxQueue == 2       \* the capacity txQueue is constructed with

\* The end-to-end scenario of a queue of capacity 4 and up to six submissions
ScenarioCapacity == 4
ScenarioPackets == 6
ScenarioContexts == 5
SerialPackets == 3    \* packets handed to send by strictly serial callers

\* The runs followed to their end
LiveContexts == 2
LivePackets == 2
LiveReceives == 1

\* ------------------------------------------------------------- constants
NULL == 0
CompressedMax == 237  \* sizeof(c.data.bytes) in startSend (generated mesh.pb.h)
HeaderLen == 16       \* sizeof(PacketHeader) in getPacketLength (RadioInterface.h)

ERRNO_OK == "ERRNO_OK"
ERRNO_UNKNOWN == "ERRNO_UNKNOWN"
QueueFull == "QueueFull"

ISR_RX == "ISR_RX"
ISR_TX == "ISR_TX"
TRANSMIT_DELAY_COMPLETED == "TRANSMIT_DELAY_COMPLETED"
ISR_NONE == "ISR_NONE"
Notifications == {ISR_NONE, ISR_RX, ISR_TX, TRANSMIT_DELAY_COMPLETED}

TX_LOG == "TX_LOG"
RX_LOG == "RX_LOG"

PortNum_SIMULATOR_APP == "SIMULATOR_APP"
PortNum_TEXT == "TEXT_MESSAGE_APP"

\* The packets a caller may hand to send: a locally generated one, relayed
\* ones heard with different SNR, one sharing its (from, id) with another,
\* one whose payload does not fit the Compressed message.
PacketShapes ==
    { [from |-> 1, id |-> 1, rx_snr |-> 0,  rx_rssi |-> 0,   size |-> 4,   portnum |-> PortNum_TEXT],
      [from |-> 1, id |-> 1, rx_snr |-> 5,  rx_rssi |-> -40, size |-> 238, portnum |-> PortNum_TEXT],
      [from |-> 2, id |-> 1, rx_snr |-> 0,  rx_rssi |-> -40, size |-> 237, portnum |-> PortNum_TEXT] }

\* The locally generated packet among them
LocalPacket == CHOOSE sh \in PacketShapes : sh.rx_snr = 0 /\ sh.rx_rssi = 0

\* What the pool leaves behind a released handle
Freed == [from |-> 0, id |-> 0, rx_snr |-> 0, rx_rssi |-> 0, size |-> 0, portnum |-> "freed"]

\* The frames a caller may hand to startReceive.
RxFrames ==
    { [from |-> 3, id |-> 1, size |-> 4,  which_payload_variant |-> "encrypted"],
      [from |-> 3, id |-> 2, size |-> 20, which_payload_variant |-> "encrypted"] }

\* The keys a caller may hand to cancelSending: those of the packets and one
\* that no packet has
Keys == {<<sh.from, sh.id>> : sh \in PacketShapes} \cup {<<2, 2>>}

\* ----------------------------------------------------------------- state
VARIABLES
    txQueue,        \* MeshPacketQueue txQueue: the handles waiting, front first
    maxLen,         \* the capacity txQueue was constructed with
    sendingPacket,  \* the handle being sent, or NULL
    isReceiving,    \* bool isReceiving
    txGood,         \* uint32_t txGood
    heap,           \* heap[h]: the MeshPacket behind handle h, Freed once released
    released,       \* released[h]: how often packetPool.release(h) was called
    airTime,        \* airTime->logAirtime per direction: the calls, the last duration
    toPhone,        \* service.sendToPhone: the calls, the last packet handed over
    delivered,      \* deliverToReceiver: the calls, the last packet handed over
    fatal,          \* an assert has failed
    inDelay,        \* contexts in delay(delayMsec), lines 56 and 69
    inXmit,         \* contexts in delay(xmitMsec), line 175
    inRecv,         \* inRecv[f]: contexts in delay(xmitMsec), line 214, holding f
    ev              \* the last call or resumption and what it did

vars == <<txQueue, maxLen, sendingPacket, isReceiving, txGood, heap, released, airTime,
          toPhone, delivered, fatal, inDelay, inXmit, inRecv, ev>>

NoTimer == [fn |-> "none", snr |-> 0, head |-> NULL]

\* The object's state as the operators below see it, with what the running
\* call has done so far: where it stands (at), the delay it armed (timer),
\* the packet it started to send (sent) and the one it released (rel).
Self ==
    [txQueue |-> txQueue, maxLen |-> maxLen, sendingPacket |-> sendingPacket, isReceiving |-> isReceiving,
     txGood |-> txGood, heap |-> heap, released |-> released, airTime |-> airTime,
     toPhone |-> toPhone, delivered |-> delivered, fatal |-> fatal,
     at |-> "ret", timer |-> NoTimer, sent |-> NULL, rel |-> NULL]


\* ------------------------------------------------- MeshPacketQueue, pool
\* txQueue.empty()
empty(q) == q = <<>>

\* txQueue.getMaxLen()
getMaxLen(s) == s.maxLen

\* txQueue.getFree(): the capacity less the occupied slots (a negative value
\* here stands for the wrapped size_t an overfull queue would report)
getFree(s) == s.maxLen - Len(s.txQueue)

\* txQueue.enqueue(p): whether it takes p (a full queue refuses), and the
\* queue afterwards
enqueueOk(s) == Len(s.txQueue) < s.maxLen
enqueue(s, p) == IF enqueueOk(s) THEN [s EXCEPT !.txQueue = Append(@, p)] ELSE s

\* txQueue.getFront() and txQueue.dequeue()
getFront(q) == Head(q)
dequeue(q) == Tail(q)

\* txQueue.remove(from, id): the first queued packet with that key, or NULL
RECURSIVE findKey(_, _, _, _, _)
findKey(q, hp, from, id, i) ==
    IF i > Len(q) THEN 0
    ELSE IF hp[q[i]].from = from /\ hp[q[i]].id = id THEN i
    ELSE findKey(q, hp, from, id, i + 1)

removeAt(q, i) == [j \in 1..(Len(q) - 1) |-> IF j < i THEN q[j] ELSE q[j + 1]]

remove(q, hp, from, id) ==
    LET i == findKey(q, hp, from, id, 1)
    IN IF i = 0 THEN [p |-> NULL, q |-> q] ELSE [p |-> q[i], q |-> removeAt(q, i)]

\* packetPool.release(p)
release(s, p) == [s EXCEPT !.released[p] = @ + 1, !.heap[p] = Freed, !.rel = p]

\* airTime->logAirtime(direction, msec)
logAirtime(s, dir, msec) ==
    [s EXCEPT !.airTime[dir] = [calls |-> @.calls + 1, msec |-> msec]]

\* getPacketLength(mp): payload size plus header
getPacketLength(mp) == mp.size + HeaderLen

\* getPacketTime(length): (bytes * 8 / bitRate) * 1000 at 8000 bit/s
getPacketTime(length) == (length * 8 * 1000) \div 8000

\* ------------------------------------------------------------- SimRadio
isActivelyReceiving == FALSE

\* isChannelActive as it would be if it found the channel active every time
isChannelActive_always == TRUE

isChannelActive == FALSE

\* canSendImmediately as it would be if it did not look at sendingPacket
canSendImmediately_ignoresTx(s) ==
    LET busyRx == s.isReceiving /\ isActivelyReceiving
    IN ~busyRx

canSendImmediately(s) ==
    LET busyTx == s.sendingPacket # NULL
        busyRx == s.isReceiving /\ isActivelyReceiving
    IN ~(busyTx \/ busyRx)

\* startTransmitTimer as it would be if it scheduled the timer and returned
startTransmitTimer_returnsAtOnce(s, withDelay) ==
    IF ~empty(s.txQueue)
    THEN [s EXCEPT !.timer = [fn |-> IF ~withDelay THEN "nominal" ELSE "getTxDelayMsec",
                              snr |-> 0, head |-> getFront(s.txQueue)]]
    ELSE s

\* The context stops in delay(delayMsec); onNotify(TRANSMIT_DELAY_COMPLETED)
\* follows when it goes on (DelayExpired).
startTransmitTimer(s, withDelay) ==
    IF ~empty(s.txQueue)
    THEN [s EXCEPT !.at = "delayMsec",
                   !.timer = [fn |-> IF ~withDelay THEN "nominal" ELSE "getTxDelayMsec",
                              snr |-> 0, head |-> getFront(s.txQueue)]]
    ELSE s

startTransmitTimerSNR(s, snr) ==
    IF ~empty(s.txQueue)
    THEN [s EXCEPT !.at = "delayMsec",
                   !.timer = [fn |-> "getTxDelayMsecWeighted",
                              snr |-> snr, head |-> getFront(s.txQueue)]]
    ELSE s

\* setTransmitDelay as it would be if it looked at the packet queued last
setTransmitDelay_lastQueued(s) ==
    LET p == s.heap[s.txQueue[Len(s.txQueue)]]
    IN IF p.rx_snr = 0 /\ p.rx_rssi = 0
       THEN startTransmitTimer(s, TRUE)
       ELSE startTransmitTimerSNR(s, p.rx_snr)

setTransmitDelay(s) ==
    LET p == s.heap[getFront(s.txQueue)]
    IN IF p.rx_snr = 0 /\ p.rx_rssi = 0
       THEN startTransmitTimer(s, TRUE)
       ELSE startTransmitTimerSNR(s, p.rx_snr)

\* completeSending as it would be if it did not clear sendingPacket
completeSending_keepsPacket(s) ==
    LET p == s.sendingPacket
    IN IF p # NULL
       THEN release([s EXCEPT !.txGood = @ + 1], p)
       ELSE s

\* completeSending as it would be if it did not release the packet
completeSending_leaks(s) ==
    LET p == s.sendingPacket
        s1 == [s EXCEPT !.sendingPacket = NULL]
    IN IF p # NULL
       THEN [s1 EXCEPT !.txGood = @ + 1]
       ELSE s1

\* completeSending as it would be if it did not count the packet
completeSending_noCount(s) ==
    LET p == s.sendingPacket
        s1 == [s EXCEPT !.sendingPacket = NULL]
    IN IF p # NULL
       THEN release(s1, p)
       ELSE s1

completeSending(s) ==
    LET p == s.sendingPacket
        s1 == [s EXCEPT !.sendingPacket = NULL]
    IN IF p # NULL
       THEN release([s1 EXCEPT !.txGood = @ + 1], p)
       ELSE s1

handleTransmitInterrupt(s) ==
    IF s.sendingPacket # NULL THEN completeSending(s) ELSE s

\* RadioInterface::beginSending(p): the packet becomes the one being sent
beginSending(s, p) == [s EXCEPT !.sendingPacket = p, !.sent = p]

\* Compressed as it would be if startSend cut a payload that is too large
Compressed_truncated(mp) ==
    [portnum |-> mp.portnum,
     size |-> IF mp.size <= CompressedMax THEN mp.size ELSE CompressedMax]

\* The Compressed message startSend builds from the copy's payload
Compressed(mp) ==
    [portnum |-> mp.portnum,
     size |-> IF mp.size <= CompressedMax THEN mp.size ELSE 0]

startSend(s, txp) ==
    LET s1 == beginSending(s, txp)
        p == s1.heap[txp]
        c == Compressed(p)
    IN [s1 EXCEPT !.toPhone = [calls |-> @.calls + 1,
                               last |-> [of |-> txp, from |-> p.from, id |-> p.id,
                                         portnum |-> PortNum_SIMULATOR_APP, c |-> c]]]

\* The default of startTransmitTimer's withDelay in onNotify(ISR_TX)
IsrTxWithDelay == FALSE

\* onNotify as it would be if it let an unknown notification pass
onNotify_ignoresUnknown(s, notification) ==
    CASE notification = ISR_TX ->
            startTransmitTimer(handleTransmitInterrupt(s), IsrTxWithDelay)
      [] notification = ISR_RX -> s
      [] notification = TRANSMIT_DELAY_COMPLETED ->
            IF ~empty(s.txQueue)
            THEN IF ~canSendImmediately(s)
                 THEN setTransmitDelay(s)
                 ELSE IF isChannelActive
                      THEN setTransmitDelay(s)
                      ELSE LET txp == getFront(s.txQueue)
                               s1 == [s EXCEPT !.txQueue = dequeue(@)]
                               s2 == startSend(s1, txp)
                               xmitMsec == getPacketTime(getPacketLength(s2.heap[txp]))
                               s3 == logAirtime(s2, TX_LOG, xmitMsec)
                           IN [s3 EXCEPT !.at = "xmitMsec"]
            ELSE s
      [] OTHER -> s

\* onNotify as it would be if it armed a delay again on an empty queue
onNotify_armsOnEmpty(s, notification) ==
    CASE notification = ISR_TX ->
            startTransmitTimer(handleTransmitInterrupt(s), IsrTxWithDelay)
      [] notification = ISR_RX -> s
      [] notification = TRANSMIT_DELAY_COMPLETED ->
            IF ~empty(s.txQueue)
            THEN IF ~canSendImmediately(s)
                 THEN setTransmitDelay(s)
                 ELSE IF isChannelActive
                      THEN setTransmitDelay(s)
                      ELSE LET txp == getFront(s.txQueue)
                               s1 == [s EXCEPT !.txQueue = dequeue(@)]
                               s2 == startSend(s1, txp)
                               xmitMsec == getPacketTime(getPacketLength(s2.heap[txp]))
                               s3 == logAirtime(s2, TX_LOG, xmitMsec)
                           IN [s3 EXCEPT !.at = "xmitMsec"]
            ELSE [s EXCEPT !.at = "delayMsec",
                           !.timer = [fn |-> "getTxDelayMsec", snr |-> 0, head |-> NULL]]
      [] OTHER -> [s EXCEPT !.fatal = TRUE]

\* onNotify as it would be if it sent the packet queued last
onNotify_sendsLast(s, notification) ==
    CASE notification = ISR_TX ->
            startTransmitTimer(handleTransmitInterrupt(s), IsrTxWithDelay)
      [] notification = ISR_RX -> s
      [] notification = TRANSMIT_DELAY_COMPLETED ->
            IF ~empty(s.txQueue)
            THEN IF ~canSendImmediately(s)
                 THEN setTransmitDelay(s)
                 ELSE IF isChannelActive
                      THEN setTransmitDelay(s)
                      ELSE LET txp == s.txQueue[Len(s.txQueue)]
                               s1 == [s EXCEPT !.txQueue = removeAt(@, Len(@))]
                               s2 == startSend(s1, txp)
                               xmitMsec == getPacketTime(getPacketLength(s2.heap[txp]))
                               s3 == logAirtime(s2, TX_LOG, xmitMsec)
                           IN [s3 EXCEPT !.at = "xmitMsec"]
            ELSE s
      [] OTHER -> [s EXCEPT !.fatal = TRUE]

\* onNotify as it would be if it gave up on a busy channel
onNotify_givesUpWhenBusy(s, notification) ==
    CASE notification = ISR_TX ->
            startTransmitTimer(handleTransmitInterrupt(s), IsrTxWithDelay)
      [] notification = ISR_RX -> s
      [] notification = TRANSMIT_DELAY_COMPLETED ->
            IF ~empty(s.txQueue)
            THEN IF ~canSendImmediately(s)
                 THEN s
                 ELSE IF isChannelActive
                      THEN s
                      ELSE LET txp == getFront(s.txQueue)
                               s1 == [s EXCEPT !.txQueue = dequeue(@)]
                               s2 == startSend(s1, txp)
                               xmitMsec == getPacketTime(getPacketLength(s2.heap[txp]))
                               s3 == logAirtime(s2, TX_LOG, xmitMsec)
                           IN [s3 EXCEPT !.at = "xmitMsec"]
            ELSE s
      [] OTHER -> [s EXCEPT !.fatal = TRUE]

\* onNotify as it would be if ISR_TX armed the delay before it completed
\* the send
onNotify_isrTxArmsFirst(s, notification) ==
    CASE notification = ISR_TX ->
            IF ~empty(s.txQueue)
            THEN startTransmitTimer(s, IsrTxWithDelay)
            ELSE handleTransmitInterrupt(s)
      [] notification = ISR_RX -> s
      [] notification = TRANSMIT_DELAY_COMPLETED ->
            IF ~empty(s.txQueue)
            THEN IF ~canSendImmediately(s)
                 THEN setTransmitDelay(s)
                 ELSE IF isChannelActive
                      THEN setTransmitDelay(s)
                      ELSE LET txp == getFront(s.txQueue)
                               s1 == [s EXCEPT !.txQueue = dequeue(@)]
                               s2 == startSend(s1, txp)
                               xmitMsec == getPacketTime(getPacketLength(s2.heap[txp]))
                               s3 == logAirtime(s2, TX_LOG, xmitMsec)
                           IN [s3 EXCEPT !.at = "xmitMsec"]
            ELSE s
      [] OTHER -> [s EXCEPT !.fatal = TRUE]

onNotify(s, notification) ==
    CASE notification = ISR_TX ->
            startTransmitTimer(handleTransmitInterrupt(s), IsrTxWithDelay)
      [] notification = ISR_RX -> s
      [] notification = TRANSMIT_DELAY_COMPLETED ->
            IF ~empty(s.txQueue)
            THEN IF ~canSendImmediately(s)
                 THEN setTransmitDelay(s)
                 ELSE IF isChannelActive
                      THEN setTransmitDelay(s)
                      ELSE LET txp == getFront(s.txQueue)
                               s1 == [s EXCEPT !.txQueue = dequeue(@)]
                               s2 == startSend(s1, txp)
                               xmitMsec == getPacketTime(getPacketLength(s2.heap[txp]))
                               s3 == logAirtime(s2, TX_LOG, xmitMsec)
                           IN [s3 EXCEPT !.at = "xmitMsec"]
            ELSE s
      [] OTHER -> [s EXCEPT !.fatal = TRUE]

\* send(p): the state afterwards and the ErrorCode
sendRes(s) == IF enqueueOk(s) THEN ERRNO_OK ELSE ERRNO_UNKNOWN

\* send as it would be if it queued the packet whatever enqueue answers
send_ignoresRefusal(s, p) ==
    setTransmitDelay([s EXCEPT !.txQueue = Append(@, p)])

\* send as it would be if it went on to arm the delay after a refusal
send_armsAfterRefusal(s, p) ==
    LET res == sendRes(s)
        s1 == enqueue(s, p)
    IN IF res # ERRNO_OK
       THEN setTransmitDelay(release(s1, p))
       ELSE setTransmitDelay(s1)

\* send as it would be if it did not release a refused packet
send_leaksRefused(s, p) ==
    LET res == sendRes(s)
        s1 == enqueue(s, p)
    IN IF res # ERRNO_OK
       THEN s1
       ELSE setTransmitDelay(s1)

send(s, p) ==
    LET res == sendRes(s)
        s1 == enqueue(s, p)
    IN IF res # ERRNO_OK
       THEN release(s1, p)
       ELSE setTransmitDelay(s1)

\* cancelSending as it would be if it also gave up the packet being sent
cancelSending_alsoOnAir(s, from, id) ==
    LET r == remove(s.txQueue, s.heap, from, id)
        s1 == [s EXCEPT !.txQueue = r.q]
        sp == s.sendingPacket
    IN IF r.p # NULL THEN release(s1, r.p)
       ELSE IF sp # NULL /\ s.heap[sp].from = from /\ s.heap[sp].id = id
            THEN release([s1 EXCEPT !.sendingPacket = NULL], sp)
            ELSE s1

cancelSending(s, from, id) ==
    LET r == remove(s.txQueue, s.heap, from, id)
        s1 == [s EXCEPT !.txQueue = r.q]
    IN IF r.p # NULL THEN release(s1, r.p) ELSE s1

cancelSendingRes(s, from, id) == remove(s.txQueue, s.heap, from, id).p # NULL

\* startReceive(p) up to its delay(xmitMsec)
startReceive(s, p) == [s EXCEPT !.isReceiving = TRUE, !.at = "rxMsec"]

handleReceiveInterrupt(s, p) ==
    IF ~s.isReceiving
    THEN [s EXCEPT !.fatal = TRUE]
    ELSE LET s1 == [s EXCEPT !.isReceiving = FALSE]
             xmitMsec == getPacketTime(getPacketLength(p))
             mp == [p EXCEPT !.which_payload_variant = "decoded"]
             s2 == logAirtime(s1, RX_LOG, xmitMsec)
         IN [s2 EXCEPT !.delivered = [calls |-> @.calls + 1, last |-> mp]]

getQueueStatus(s) ==
    [res |-> 0, mesh_packet_id |-> 0, free |-> getFree(s), maxlen |-> getMaxLen(s)]

\* --------------------------------------------------------------- actions
NoFrame == [from |-> 0, id |-> 0, size |-> 0, which_payload_variant |-> "none"]
NoPacket == [of |-> NULL, from |-> 0, id |-> 0, portnum |-> "none",
             c |-> [portnum |-> "none", size |-> 0]]

\* What the last call was called with, and what a bool it returned is
\* recorded as: one record for all calls, the fields a call has no use for
\* left at their null values.
NoArg == [p |-> NULL, key |-> <<0, 0>>, n |-> "none", f |-> NoFrame]
ArgPacket(p) == [NoArg EXCEPT !.p = p]
ArgKey(k) == [NoArg EXCEPT !.key = k]
ArgNotification(n) == [NoArg EXCEPT !.n = n]
ArgFrame(f) == [NoArg EXCEPT !.f = f]
BoolRes(b) == IF b THEN "true" ELSE "false"

Parked == inDelay + inXmit + inRecv[CHOOSE f \in RxFrames : TRUE]
          + inRecv[CHOOSE f \in RxFrames : f # (CHOOSE g \in RxFrames : TRUE)]

\* A caller can enter the radio: fewer than n contexts are inside it.
Free(n) == Parked < n

Moved(n, name, from, to) ==
    n - (IF from = name THEN 1 ELSE 0) + (IF to = name THEN 1 ELSE 0)

\* The state after a call or resumption that started at `from` and left the
\* object as s; f is the frame of a receive, NoFrame otherwise.
Commit(s, from, op, arg, res, f) ==
    /\ txQueue' = s.txQueue
    /\ maxLen' = s.maxLen
    /\ sendingPacket' = s.sendingPacket
    /\ isReceiving' = s.isReceiving
    /\ txGood' = s.txGood
    /\ heap' = s.heap
    /\ released' = s.released
    /\ airTime' = s.airTime
    /\ toPhone' = s.toPhone
    /\ delivered' = s.delivered
    /\ fatal' = s.fatal
    /\ inDelay' = Moved(inDelay, "delayMsec", from, s.at)
    /\ inXmit' = Moved(inXmit, "xmitMsec", from, s.at)
    /\ inRecv' = [g \in RxFrames |->
                    IF g = f THEN Moved(inRecv[g], "rxMsec", from, s.at) ELSE inRecv[g]]
    /\ ev' = [op |-> op, arg |-> arg, res |-> res, at |-> s.at,
              timer |-> s.timer, sent |-> s.sent, rel |-> s.rel]

InitWith(capacity) ==
    /\ txQueue = <<>>
    /\ maxLen = capacity
    /\ sendingPacket = NULL
    /\ isReceiving = FALSE
    /\ txGood = 0
    /\ heap = <<>>
    /\ released = <<>>
    /\ airTime = [d \in {TX_LOG, RX_LOG} |-> [calls |-> 0, msec |-> 0]]
    /\ toPhone = [calls |-> 0, last |-> NoPacket]
    /\ delivered = [calls |-> 0, last |-> NoFrame]
    /\ fatal = FALSE
    /\ inDelay = 0
    /\ inXmit = 0
    /\ inRecv = [f \in RxFrames |-> 0]
    /\ ev = [op |-> "init", arg |-> NoArg, res |-> "void", at |-> "ret",
             timer |-> NoTimer, sent |-> NULL, rel |-> NULL]

Init == InitWith(MaxTxQueue)

\* A caller takes a packet from the pool and calls send(p).
Send(sh) ==
    /\ ~fatal
    /\ LET p == Len(heap) + 1
           s0 == [Self EXCEPT !.heap = Append(@, sh), !.released = Append(@, 0)]
       IN Commit(send(s0, p), "call", "send", ArgPacket(p), sendRes(s0), NoFrame)

\* A caller calls cancelSending(from, id).
CancelSending(k) ==
    /\ ~fatal
    /\ Commit(cancelSending(Self, k[1], k[2]), "call", "cancelSending", ArgKey(k),
              BoolRes(cancelSendingRes(Self, k[1], k[2])), NoFrame)

\* A caller calls onNotify(notification).
Notify(n) ==
    /\ ~fatal
    /\ Commit(onNotify(Self, n), "call", "onNotify", ArgNotification(n), "void", NoFrame)

\* A context in delay(delayMsec) goes on: onNotify(TRANSMIT_DELAY_COMPLETED).
DelayExpired ==
    /\ ~fatal
    /\ inDelay > 0
    /\ Commit(onNotify(Self, TRANSMIT_DELAY_COMPLETED), "delayMsec", "delayExpired",
              ArgNotification(TRANSMIT_DELAY_COMPLETED), "void", NoFrame)

\* A context in delay(xmitMsec) of onNotify goes on: completeSending().
XmitDone ==
    /\ ~fatal
    /\ inXmit > 0
    /\ Commit(completeSending(Self), "xmitMsec", "xmitDone", NoArg, "void", NoFrame)

\* A caller calls startReceive(p) and stops in its delay(xmitMsec).
StartReceive(f) ==
    /\ ~fatal
    /\ Commit(startReceive(Self, f), "call", "startReceive", ArgFrame(f), "void", f)

\* A context in delay(xmitMsec) of startReceive goes on.
ReceiveDone(f) ==
    /\ ~fatal
    /\ inRecv[f] > 0
    /\ Commit(handleReceiveInterrupt(Self, f), "rxMsec", "handleReceiveInterrupt",
              ArgFrame(f), "void", f)

\* Callers enter while a context is free and the bounds allow.
Received == delivered.calls + (Parked - inDelay - inXmit)

Next ==
    \/ \E sh \in PacketShapes : Free(MaxContexts) /\ Len(heap) < MaxPackets /\ Send(sh)
    \/ \E k \in Keys : Free(MaxContexts) /\ CancelSending(k)
    \/ \E n \in Notifications : Free(MaxContexts) /\ Notify(n)
    \/ DelayExpired
    \/ XmitDone
    \/ \E f \in RxFrames : Free(MaxContexts) /\ Received < MaxReceives /\ StartReceive(f)
    \/ \E f \in RxFrames : ReceiveDone(f)

Spec == Init /\ [][Next]_vars

\* The end-to-end scenario: a queue of capacity ScenarioCapacity, callers
\* that only submit locally generated packets, and the delays running out.
InitScenario == InitWith(ScenarioCapacity)

NextScenario ==
    \/ Free(ScenarioContexts) /\ Len(heap) < ScenarioPackets /\ Send(LocalPacket)
    \/ DelayExpired
    \/ XmitDone

SpecScenario == InitScenario /\ [][NextScenario]_vars

\* Strictly serial callers: delay() blocks the one thread there is, so a
\* call is made only when the call before it has returned.
NextSerial ==
    \/ \E sh \in PacketShapes : Parked = 0 /\ Len(heap) < SerialPackets /\ Send(sh)
    \/ \E k \in Keys : Parked = 0 /\ CancelSending(k)
    \/ \E n \in Notifications : Parked = 0 /\ Notify(n)
    \/ DelayExpired
    \/ XmitDone
    \/ \E f \in RxFrames : Parked = 0 /\ Received < MaxReceives /\ StartReceive(f)
    \/ \E f \in RxFrames : ReceiveDone(f)

SpecSerial == Init /\ [][NextSerial]_vars

\* The object and the waiting contexts: every variable but the record of the
\* last step.
state == <<txQueue, maxLen, sendingPacket, isReceiving, txGood, heap, released,
           airTime, toPhone, delivered, fatal, inDelay, inXmit, inRecv>>

\* A delay comes to its end: a context waiting in delay() goes on after the
\* time it asked for, so each of the three resumptions happens if it stays
\* possible.
Fairness ==
    /\ WF_state(DelayExpired)
    /\ WF_state(XmitDone)
    /\ \A f \in RxFrames : WF_state(ReceiveDone(f))

\* The callers of Next within the bounds of the runs that are followed to
\* their end; the packets submitted are locally generated ones (whether a
\* packet leaves the queue does not depend on its payload or its SNR).
NextLive ==
    \/ Free(LiveContexts) /\ Len(heap) < LivePackets /\ Send(LocalPacket)
    \/ \E k \in Keys : Free(LiveContexts) /\ CancelSending(k)
    \/ \E n \in Notifications : Free(LiveContexts) /\ Notify(n)
    \/ DelayExpired
    \/ XmitDone
    \/ \E f \in RxFrames : Free(LiveContexts) /\ Received < LiveReceives /\ StartReceive(f)
    \/ \E f \in RxFrames : ReceiveDone(f)

SpecLive == Init /\ [][NextLive]_vars /\ Fairness

\* ---------------------------------------------------------------- claims
Handles == 1..Len(heap)
Queued(h) == \E i \in 1..Len(txQueue) : txQueue[i] = h
Held(h) == Queued(h) \/ sendingPacket = h
Live == Cardinality({h \in Handles : released[h] = 0})

\* C1: every handle handed to send is released exactly once: never twice, a
\* handle not yet released is still held by the radio (queued once, or being
\* sent, never both), nothing is held once every call has returned, and a
\* release happens only on send completion, on a refused enqueue (the packet
\* just submitted) or on a cancellation that found the packet.
C1_ReleasedExactlyOnce ==
    /\ \A h \in Handles :
        /\ released[h] <= 1
        /\ released[h] = 0 <=> Held(h)
        /\ ~(Queued(h) /\ sendingPacket = h)
        /\ Cardinality({i \in 1..Len(txQueue) : txQueue[i] = h}) <= 1
    /\ Parked = 0 => \A h \in Handles : released[h] = 1
    /\ ev.rel # NULL =>
        \/ ev.op = "xmitDone"
        \/ ev.op = "onNotify" /\ ev.arg.n = ISR_TX
        \/ ev.op = "send" /\ ev.res = ERRNO_UNKNOWN /\ ev.rel = ev.arg.p
        \/ ev.op = "cancelSending" /\ ev.res = "true"

\* Three packets have gone, one of them by send completion, and all calls
\* have returned.
C1_Witness ==
    /\ Len(heap) = 3
    /\ \A h \in Handles : released[h] = 1
    /\ txGood = 1
    /\ Parked = 0
    /\ ev.op = "xmitDone" /\ ev.rel # NULL

IsSend == Len(heap') = Len(heap) + 1

\* A step that handles TRANSMIT_DELAY_COMPLETED, after a delay or as a call.
IsDelayCompleted ==
    \/ ev'.op = "delayExpired"
    \/ ev'.op = "onNotify" /\ ev'.arg.n = TRANSMIT_DELAY_COMPLETED

\* C4: send(p) on a full queue returns an error code other than Ok, releases
\* p once, leaves the queue as it was, arms no delay and starts no
\* transmission (no airtime logged, nothing handed to the phone).
C4_SendOnFullQueue ==
    [][(IsSend /\ Len(txQueue) = maxLen) =>
        /\ ev'.res # ERRNO_OK
        /\ released'[ev'.arg.p] = 1 /\ ev'.rel = ev'.arg.p
        /\ \A h \in Handles : released'[h] = released[h]
        /\ txQueue' = txQueue
        /\ ev'.timer = NoTimer /\ ev'.at = "ret"
        /\ inDelay' = inDelay /\ inXmit' = inXmit
        /\ ev'.sent = NULL /\ sendingPacket' = sendingPacket
        /\ airTime' = airTime /\ toPhone' = toPhone /\ txGood' = txGood]_vars

\* A send has just been refused by the full queue.
C4_Witness ==
    /\ ev.op = "send" /\ ev.res = ERRNO_UNKNOWN /\ ev.rel = ev.arg.p
    /\ Len(txQueue) = maxLen
    /\ inDelay = maxLen

\* The send of packet maxLen + 1 has returned and the maxLen packets before it
\* are all still queued.
FifthOnFull ==
    /\ ev.op = "send" /\ ev.arg.p = maxLen + 1
    /\ Len(txQueue) = maxLen
    /\ \A h \in 1..maxLen : Queued(h)

OnlyOne == Len(heap) = 1

\* C6: one locally generated packet submitted on an idle channel: the
\* TRANSMIT_DELAY_COMPLETED that follows logs TX airtime once and empties the
\* queue, and when the handler has run the packet is released.
C6_OneLocalPacket ==
    /\ (OnlyOne /\ inDelay = 1) =>
          /\ txQueue = <<1>> /\ airTime[TX_LOG].calls = 0 /\ released[1] = 0
          /\ ev.timer.fn = "getTxDelayMsec"
    /\ (OnlyOne /\ inXmit = 1) =>
          /\ ev.op = "delayExpired"
          /\ txQueue = <<>> /\ airTime[TX_LOG].calls = 1 /\ sendingPacket = 1
          /\ released[1] = 0
    /\ (OnlyOne /\ Parked = 0) =>
          /\ ev.op = "xmitDone"
          /\ txQueue = <<>> /\ airTime[TX_LOG].calls = 1 /\ sendingPacket = NULL
          /\ released[1] = 1 /\ txGood = 1
          /\ airTime[TX_LOG].msec = getPacketTime(getPacketLength(LocalPacket))

C6_Witness ==
    /\ OnlyOne /\ Parked = 0 /\ ev.op = "xmitDone"
    /\ released[1] = 1 /\ txQueue = <<>> /\ airTime[TX_LOG].calls = 1

\* What onNotify takes for a busy channel.
ChannelBusy ==
    \/ sendingPacket # NULL
    \/ isReceiving /\ isActivelyReceiving
    \/ isChannelActive

\* C7: TRANSMIT_DELAY_COMPLETED with a packet queued while the channel is busy
\* (canSendImmediately false or isChannelActive true) arms a new delay and
\* does not transmit: the queue is as before, no airtime is logged, nothing
\* starts to be sent.
C7_BusyRearms ==
    [][(IsDelayCompleted /\ ~empty(txQueue) /\ ChannelBusy) =>
        /\ ev'.timer # NoTimer /\ ev'.at = "delayMsec"
        /\ ev'.timer.head = Head(txQueue)
        /\ txQueue' = txQueue
        /\ airTime' = airTime /\ toPhone' = toPhone
        /\ ev'.sent = NULL /\ sendingPacket' = sendingPacket
        /\ released' = released]_vars

\* A delay ran out while a packet was on air, and was armed again.
C7_Witness ==
    /\ ev.op = "delayExpired"
    /\ ev.timer # NoTimer
    /\ sendingPacket # NULL
    /\ ~empty(txQueue) /\ ev.timer.head = Head(txQueue)

\* Packet h has the key k = <<from, id>>; the queue afterwards is the queue
\* before without its i-th entry.
HasKey(h, k) == heap[h].from = k[1] /\ heap[h].id = k[2]

TookOut(i) ==
    /\ Len(txQueue') = Len(txQueue) - 1
    /\ \A j \in 1..Len(txQueue') : txQueue'[j] = txQueue[IF j < i THEN j ELSE j + 1]

\* C8: cancelSending(from, id) returns true iff a packet with that key is
\* queued; then it takes exactly one such packet out of the queue, keeping the
\* order of the others, and releases it; otherwise the queue and the pool are
\* as before. The packet being sent is never touched, whatever its key.
C8_CancelSending ==
    [][ev'.op = "cancelSending" =>
        LET k == ev'.arg.key
            found == \E i \in 1..Len(txQueue) : HasKey(txQueue[i], k)
        IN /\ ev'.res = BoolRes(found)
           /\ found =>
                \E i \in 1..Len(txQueue) :
                    /\ HasKey(txQueue[i], k)
                    /\ TookOut(i)
                    /\ ev'.rel = txQueue[i]
                    /\ released' = [released EXCEPT ![txQueue[i]] = 1]
                    /\ \A h \in Handles \ {txQueue[i]} : heap'[h] = heap[h]
           /\ ~found =>
                txQueue' = txQueue /\ released' = released /\ heap' = heap /\ ev'.rel = NULL
           /\ sendingPacket' = sendingPacket
           /\ sendingPacket # NULL =>
                heap'[sendingPacket] = heap[sendingPacket] /\ released'[sendingPacket] = 0
           /\ txGood' = txGood /\ airTime' = airTime /\ toPhone' = toPhone
           /\ inDelay' = inDelay /\ inXmit' = inXmit /\ ev'.at = "ret"]_vars

\* A cancellation for the key of the packet on air has returned false.
C8_Witness ==
    /\ ev.op = "cancelSending" /\ ev.res = "false"
    /\ sendingPacket # NULL
    /\ HasKey(sendingPacket, ev.arg.key)
    /\ released[sendingPacket] = 0

\* A cancellation has taken one of two queued packets with the same key.
C8_WitnessFound ==
    /\ ev.op = "cancelSending" /\ ev.res = "true"
    /\ \E i \in 1..Len(txQueue) : HasKey(txQueue[i], ev.arg.key)

\* The packets on air (0 or 1); a step that completes a send; the counters
\* that follow txGood.
OnAir == IF sendingPacket # NULL THEN 1 ELSE 0

IsCompletion ==
    /\ sendingPacket # NULL
    /\ \/ ev'.op = "xmitDone"
       \/ ev'.op = "onNotify" /\ ev'.arg.n = ISR_TX

C9_Counted ==
    /\ txGood + OnAir = toPhone.calls
    /\ txGood + OnAir = airTime[TX_LOG].calls

\* C9: completing a send releases the packet that was on air, adds one to
\* txGood and clears sendingPacket; txGood changes in no other way, so txGood
\* is the number of packets dequeued and handed to startSend, less the one
\* still on air.
C9_Completion ==
    /\ []C9_Counted
    /\ [][/\ IsCompletion =>
              /\ txGood' = txGood + 1
              /\ released'[sendingPacket] = released[sendingPacket] + 1
              /\ ev'.rel = sendingPacket
              /\ sendingPacket' = NULL
          /\ txGood' # txGood => IsCompletion]_vars

\* Two sends have been completed.
C9_Witness ==
    /\ ev.op = "xmitDone" /\ ev.rel # NULL
    /\ txGood = 2 /\ toPhone.calls = 2 /\ sendingPacket = NULL

\* The last call or resumption went through setTransmitDelay if it armed a delay.
BySetTransmitDelay ==
    \/ ev.op = "send"
    \/ ev.op = "delayExpired"
    \/ ev.op = "onNotify" /\ ev.arg.n = TRANSMIT_DELAY_COMPLETED

\* C10: a delay armed by setTransmitDelay (on submit, or armed again on
\* TRANSMIT_DELAY_COMPLETED) follows the packet at the head of the queue: the
\* uniform random delay if its rx_snr and rx_rssi are both zero, the SNR
\* weighted delay with its rx_snr if its rx_snr is not zero.
C10_DelayRule ==
    (ev.timer # NoTimer /\ BySetTransmitDelay) =>
        /\ ~empty(txQueue)
        /\ LET p == heap[Head(txQueue)]
           IN /\ (p.rx_snr = 0 /\ p.rx_rssi = 0) => ev.timer.fn = "getTxDelayMsec"
              /\ p.rx_snr # 0 =>
                    ev.timer.fn = "getTxDelayMsecWeighted" /\ ev.timer.snr = p.rx_snr

\* A locally generated packet was submitted behind a relayed one, and the
\* delay armed is the SNR weighted one of the relayed packet.
C10_Witness ==
    /\ ev.op = "send" /\ ev.res = ERRNO_OK
    /\ Head(txQueue) # ev.arg.p
    /\ heap[ev.arg.p].rx_snr = 0 /\ heap[ev.arg.p].rx_rssi = 0
    /\ ev.timer.fn = "getTxDelayMsecWeighted"
    /\ ev.timer.snr = heap[Head(txQueue)].rx_snr

\* A step that starts to send: onNotify(TRANSMIT_DELAY_COMPLETED) went
\* through startSend.
IsTransmit == ev'.sent # NULL

\* C11: when a packet is transmitted, the Compressed envelope startSend builds
\* has size 0 if the payload is larger than the envelope's capacity (nothing
\* of the payload is copied) and the payload's size if it fits; either way the
\* copy is handed to sendToPhone with the simulator's portnum and TX airtime
\* is logged for the packet's length.
C11_Envelope ==
    [][IsTransmit =>
        LET p == heap[ev'.sent]
        IN /\ toPhone'.calls = toPhone.calls + 1
           /\ toPhone'.last.of = ev'.sent
           /\ toPhone'.last.portnum = PortNum_SIMULATOR_APP
           /\ toPhone'.last.c.portnum = p.portnum
           /\ p.size > CompressedMax => toPhone'.last.c.size = 0
           /\ p.size <= CompressedMax => toPhone'.last.c.size = p.size
           /\ airTime'[TX_LOG] = [calls |-> airTime[TX_LOG].calls + 1,
                                  msec |-> getPacketTime(getPacketLength(p))]
           /\ sendingPacket' = ev'.sent]_vars

\* A packet with a payload one byte too large has started to be sent with an
\* empty envelope.
C11_Witness ==
    /\ ev.sent # NULL /\ sendingPacket = ev.sent
    /\ heap[ev.sent].size = CompressedMax + 1
    /\ toPhone.last.of = ev.sent /\ toPhone.last.c.size = 0
    /\ airTime[TX_LOG].calls = toPhone.calls

\* A step in which a context leaves the delay of startReceive and runs
\* handleReceiveInterrupt.
IsReceiveDone == ev'.op = "handleReceiveInterrupt"

C12_AssertionStops ==
    [][(IsReceiveDone /\ ~isReceiving) =>
        /\ fatal'
        /\ delivered' = delivered /\ airTime' = airTime
        /\ heap' = heap /\ released' = released
        /\ isReceiving' = isReceiving]_vars

\* A second receive found isReceiving cleared by the first.
C12_AssertionFailed ==
    /\ fatal /\ ev.op = "handleReceiveInterrupt"
    /\ ~isReceiving /\ delivered.calls = 1

\* A step that is the call onNotify(n) with n none of the three the switch knows.
IsUnknownNotify ==
    /\ ev'.op = "onNotify"
    /\ ev'.arg.n \notin {ISR_TX, ISR_RX, TRANSMIT_DELAY_COMPLETED}

\* C13: onNotify with a notification other than ISR_TX, ISR_RX and
\* TRANSMIT_DELAY_COMPLETED ends in the failed assertion and leaves the queue,
\* the pool, the airtime counters, txGood and the sending and receiving flags
\* as they were; nothing is armed, sent or delivered, and nothing runs after.
C13_UnknownNotification ==
    /\ [][IsUnknownNotify =>
            /\ fatal'
            /\ txQueue' = txQueue
            /\ heap' = heap /\ released' = released
            /\ airTime' = airTime /\ txGood' = txGood
            /\ sendingPacket' = sendingPacket /\ isReceiving' = isReceiving
            /\ toPhone' = toPhone /\ delivered' = delivered
            /\ ev'.timer = NoTimer /\ ev'.sent = NULL /\ ev'.rel = NULL
            /\ inDelay' = inDelay /\ inXmit' = inXmit /\ inRecv' = inRecv]_vars
    /\ [][fatal => UNCHANGED vars]_vars

\* An unknown notification arrived while a packet was queued and another on
\* air.
C13_Witness ==
    /\ fatal /\ ev.op = "onNotify" /\ ev.arg.n = ISR_NONE
    /\ ~empty(txQueue) /\ sendingPacket # NULL

\* C14: TRANSMIT_DELAY_COMPLETED with an empty queue does nothing: the queue,
\* the pool, the airtime counters, txGood and the sending and receiving flags
\* are as before, no delay is armed and no send started; the handler returns
\* (the context that waited for the delay is gone, no other is added).
C14_EmptyQueueNoOp ==
    [][(IsDelayCompleted /\ empty(txQueue)) =>
        /\ txQueue' = <<>>
        /\ heap' = heap /\ released' = released
        /\ airTime' = airTime /\ txGood' = txGood
        /\ sendingPacket' = sendingPacket /\ isReceiving' = isReceiving
        /\ toPhone' = toPhone /\ delivered' = delivered
        /\ ~fatal'
        /\ ev'.timer = NoTimer /\ ev'.at = "ret"
        /\ ev'.sent = NULL /\ ev'.rel = NULL
        /\ inDelay' = inDelay - (IF ev'.op = "delayExpired" THEN 1 ELSE 0)
        /\ inXmit' = inXmit /\ inRecv' = inRecv]_vars

\* A delay ran out on a queue that had been emptied meanwhile (the handler
\* returns at once only then), with a packet submitted before.
C14_Witness ==
    /\ ev.op = "delayExpired" /\ ev.at = "ret"
    /\ txQueue = <<>> /\ ev.timer = NoTimer
    /\ Len(heap) > 0

\* Handles are numbered in the order of the calls to send, so "submitted
\* before" is "<" on handles. The queue holds its packets in that order, and
\* all of them were submitted after the packet transmitted last.
InSubmissionOrder ==
    /\ \A i, j \in 1..Len(txQueue) : i < j => txQueue[i] < txQueue[j]
    /\ \A i \in 1..Len(txQueue) : toPhone.last.of < txQueue[i]

RearmedOnBusy ==
    /\ ev.op = "delayExpired" /\ ev.at = "delayMsec"
    /\ ~empty(txQueue) /\ ChannelBusy

\* C16: a delay that runs out while a packet is queued and the channel is
\* busy is armed again, every time: the step changes nothing (no counter of
\* retries, the head packet neither sent nor released, the queue as before)
\* and leaves a context waiting in the delay, so that as long as the channel
\* stays busy the same step can be taken again from the state it leads to,
\* without end.
C16_BusyRearmsForever ==
    /\ [][(ev'.op = "delayExpired" /\ ~empty(txQueue) /\ ChannelBusy) =>
            /\ UNCHANGED state
            /\ RearmedOnBusy'
            /\ ev'.timer.head = Head(txQueue) /\ ev'.sent = NULL /\ ev'.rel = NULL
            /\ released'[Head(txQueue')] = 0
            /\ inDelay' > 0]_vars
    /\ [](RearmedOnBusy => ENABLED (DelayExpired /\ vars' = vars))

\* The only waiting delay ran out on a busy channel and waits again, its
\* packet still at the head of the queue.
C16_Witness ==
    /\ RearmedOnBusy
    /\ inDelay = 1 /\ inXmit = 1
    /\ ev.timer.head = Head(txQueue) /\ released[Head(txQueue)] = 0
    /\ txGood = 0

\* Steps that are the calls onNotify(ISR_TX) and onNotify(ISR_RX).
IsIsrTx == ev'.op = "onNotify" /\ ev'.arg.n = ISR_TX
IsIsrRx == ev'.op = "onNotify" /\ ev'.arg.n = ISR_RX

\* C17: onNotify(ISR_TX) first completes the send under way, if there is one
\* (the packet released, txGood one more, sendingPacket cleared), and
\* changes nothing of that when there is none; then, if a packet is queued,
\* it arms the nominal delay (not the random one, nor the SNR weighted one)
\* for the head of the queue and waits for it, which leads to
\* onNotify(TRANSMIT_DELAY_COMPLETED); with an empty queue it returns. It
\* never transmits itself. onNotify(ISR_RX) changes nothing.
C17_IsrEvents ==
    /\ [][IsIsrTx =>
            /\ sendingPacket' = NULL
            /\ sendingPacket # NULL =>
                  /\ txGood' = txGood + 1
                  /\ ev'.rel = sendingPacket
                  /\ released' = [released EXCEPT ![sendingPacket] = 1]
            /\ sendingPacket = NULL =>
                  /\ txGood' = txGood /\ ev'.rel = NULL
                  /\ released' = released /\ heap' = heap
            /\ txQueue' = txQueue /\ airTime' = airTime /\ toPhone' = toPhone
            /\ isReceiving' = isReceiving /\ ev'.sent = NULL /\ ~fatal'
            /\ ~empty(txQueue) =>
                  /\ ev'.at = "delayMsec"
                  /\ ev'.timer = [fn |-> "nominal", snr |-> 0, head |-> Head(txQueue)]
                  /\ inDelay' = inDelay + 1
            /\ empty(txQueue) =>
                  /\ ev'.at = "ret" /\ ev'.timer = NoTimer
                  /\ inDelay' = inDelay]_vars
    /\ []((ev.op = "onNotify" /\ ev.arg.n = ISR_TX /\ ev.at = "delayMsec")
            => ENABLED DelayExpired)
    /\ [][IsIsrRx =>
            /\ UNCHANGED state
            /\ ev'.at = "ret" /\ ev'.timer = NoTimer
            /\ ev'.sent = NULL /\ ev'.rel = NULL]_vars

\* ISR_TX arrived while a packet was on air and another queued: the first
\* is released and the nominal delay armed for the second.
C17_Witness ==
    /\ ev.op = "onNotify" /\ ev.arg.n = ISR_TX
    /\ ev.rel # NULL /\ released[ev.rel] = 1 /\ sendingPacket = NULL
    /\ ev.at = "delayMsec" /\ ev.timer.fn = "nominal"
    /\ ~empty(txQueue) /\ ev.timer.head = Head(txQueue)

\* What a receive completion does with the frame f it was started for: the
\* flag cleared, one copy marked as decoded delivered, RX airtime logged once
\* for the frame's length, the transmit side as it was.
Completes(f) ==
    /\ isReceiving' = FALSE
    /\ delivered' = [calls |-> delivered.calls + 1,
                     last |-> [f EXCEPT !.which_payload_variant = "decoded"]]
    /\ airTime'[RX_LOG] = [calls |-> airTime[RX_LOG].calls + 1,
                           msec |-> getPacketTime(getPacketLength(f))]
    /\ airTime'[TX_LOG] = airTime[TX_LOG]
    /\ txQueue' = txQueue /\ sendingPacket' = sendingPacket /\ txGood' = txGood
    /\ heap' = heap /\ released' = released /\ toPhone' = toPhone
    /\ inRecv'[f] = inRecv[f] - 1 /\ ev'.at = "ret"
    /\ ~fatal'

\* startReceive(f) up to its delay: the flag set, nothing else touched.
Starts(f) ==
    /\ isReceiving'
    /\ inRecv'[f] = inRecv[f] + 1 /\ ev'.at = "rxMsec"
    /\ UNCHANGED <<txQueue, sendingPacket, txGood, heap, released, airTime,
                   toPhone, delivered, fatal, inDelay, inXmit>>

C18_CompletionWhileReceiving ==
    /\ [][ev'.op = "startReceive" => Starts(ev'.arg.f)]_vars
    /\ [][(IsReceiveDone /\ isReceiving) => Completes(ev'.arg.f)]_vars
    /\ [](delivered.calls = airTime[RX_LOG].calls)

\* A receive has completed while a packet was queued and another on air.
C18_Delivered ==
    /\ ev.op = "handleReceiveInterrupt" /\ ~fatal
    /\ delivered.calls = 1 /\ delivered.last.which_payload_variant = "decoded"
    /\ delivered.last.size = ev.arg.f.size
    /\ ~empty(txQueue) /\ sendingPacket # NULL

\* No call is under way and the radio is at rest: nothing queued or on air,
\* and every packet handed to send so far has been transmitted, counted and
\* released.
AtRest ==
    /\ txQueue = <<>> /\ sendingPacket = NULL /\ ~isReceiving
    /\ inDelay = 0 /\ inXmit = 0
    /\ toPhone.calls = Len(heap) /\ airTime[TX_LOG].calls = Len(heap)
    /\ txGood = Len(heap)
    /\ \A h \in Handles : released[h] = 1
    /\ Len(heap) > 0 => toPhone.last.of = Len(heap)

\* C19: with strictly serial callers send is synchronous with its own delay:
\* send(p) finds the queue empty and the channel free, is accepted, and
\* before it returns its delay runs out, onNotify(TRANSMIT_DELAY_COMPLETED)
\* transmits the head of the queue, which is p, and the send completes. So
\* between two calls the queue is empty (as many packets as before the
\* send), no delay is pending, and exactly the packets submitted have been
\* transmitted, p last.
C19_SendIsSynchronous ==
    /\ [](Parked = 0 => AtRest)
    /\ [][IsSend =>
            /\ Parked = 0 /\ AtRest
            /\ ev'.res = ERRNO_OK
            /\ txQueue' = <<ev'.arg.p>>
            /\ ev'.at = "delayMsec" /\ inDelay' = 1
            /\ toPhone' = toPhone]_vars
    /\ [][ev'.op = "delayExpired" =>
            /\ Len(txQueue) = 1
            /\ ev'.sent = Head(txQueue) /\ ev'.sent = Len(heap)
            /\ txQueue' = <<>>
            /\ toPhone'.calls = toPhone.calls + 1
            /\ ev'.at = "xmitMsec" /\ inDelay' = 0 /\ inXmit' = 1]_vars
    /\ [][ev'.op = "xmitDone" =>
            /\ ev'.rel = Len(heap)
            /\ Parked' = 0 /\ AtRest']_vars

\* The second send has returned: both packets were transmitted, the queue
\* is empty again.
C19_Witness ==
    /\ ev.op = "xmitDone" /\ Parked = 0
    /\ Len(heap) = 2 /\ toPhone.calls = 2 /\ toPhone.last.of = 2
    /\ txQueue = <<>> /\ txGood = 2

\* Nothing is left to do: no packet queued or on air, no context in a delay.
Idle ==
    /\ txQueue = <<>> /\ sendingPacket = NULL
    /\ inDelay = 0 /\ inXmit = 0

\* Packet h has left the queue in this step.
LeftQueue(h) == h \in Handles /\ Queued(h) /\ ~Queued(h)'

\* C20: when the delays run out (and so a send under way completes and the
\* channel becomes free), and the program does not stop in a failed
\* assertion, every packet send has queued leaves the queue, and it leaves it
\* only by being transmitted from the head of the queue or by a cancellation
\* that names it; a packet transmitted is completed, and so every packet
\* queued is released in the end; and in the end the radio is idle for good,
\* with nothing queued, nothing on air and no delay pending.
C20_EventuallyTransmitted ==
    /\ \A h \in 1..LivePackets :
          (h \in Handles /\ Queued(h)) ~> (fatal \/ (h \in Handles /\ released[h] = 1))
    /\ [][\A h \in 1..LivePackets : LeftQueue(h) =>
              \/ ev'.sent = h /\ sendingPacket' = h /\ IsDelayCompleted
              \/ ev'.op = "cancelSending" /\ ev'.rel = h /\ HasKey(h, ev'.arg.key)]_vars
    /\ <>[](fatal \/ Idle)

\* Two packets were submitted, none refused or cancelled, and the second of
\* them has been transmitted and completed; the radio is idle.
C20_Witness ==
    /\ ~fatal /\ Idle /\ ev.op = "xmitDone"
    /\ Len(heap) = 2 /\ txGood = 2 /\ toPhone.calls = 2
    /\ \A h \in Handles : released[h] = 1

====
